---- MODULE Spec2Model ----
(***************************************************************************)
(* State-machine model of the QR code generator form                       *)
(* (src/components/qr-code-generator.tsx: QRCodeGenerator and ColorPicker).*)
(*                                                                         *)
(* Representation choices:                                                 *)
(*  - the content value, data URLs and file names are strings;             *)
(*  - colour texts are sequences of one-character strings, so that the     *)
(*    hex-colour regular expression is matched character by character;    *)
(*  - logoOpacity is kept in tenths (the slider runs 0.1 .. 1 step 0.1,    *)
(*    modelled as 1 .. 10 step 1);                                         *)
(*  - a handler closes over the qrSettings of the render that created it;  *)
(*    synchronous handlers therefore read the current qrSettings, while    *)
(*    the FileReader onload callback reads the qrSettings captured when    *)
(*    the upload was started (field closure of a pending read).            *)
(***************************************************************************)
EXTENDS Integers, Sequences, FiniteSets, TLC

VARIABLES
    platforms,    \* useState<string[]>(["web"])
    qrType,       \* useState<QRCodeType>("url")
    qrSettings,   \* useState<QRCodeSettings>({...})
    inputValue,   \* ColorPicker's useState(color), one per picker
    pending,      \* FileReader reads in flight, each with its onload closure
    nextId,       \* number of uploads started so far
    chosen,       \* the file the hidden file input holds (fileInputRef)
    surface,      \* what qrRef.current holds: nothing, a div, a div with canvas
    downloads,    \* file names of the downloads triggered (link.click())
    thrown,       \* an exception escaped a handler
    lastOp,       \* history: the handler or event that ran last, and its input
    ticked,       \* history: the boxes the user has ticked an odd number of times
    log,          \* history: upload starts and reader events, in order
    budget        \* handler runs left to explore; Unlimited when not counted

vars == <<platforms, qrType, qrSettings, inputValue, pending, nextId, chosen, surface,
          downloads, thrown, lastOp, ticked, log, budget>>

----------------------------------------------------------------------------
(* Bounds of the model *)

MaxUploads == 2
MaxDownloads == 1
MaxSteps == 3

----------------------------------------------------------------------------
(* Types and literals of the source *)

Unlimited == 0 - 1

NULL == "null"

QRCodeType == {"url", "text", "email", "phone", "sms", "wifi", "vcard"}

PlatformTags == {"web", "android", "ios"}

ColorFields == {"fgColor", "bgColor", "eyeColor"}

QRStyles == {"squares", "dots"}

presetColors ==
    << <<"#","0","0","0","0","0","0">>,
       <<"#","F","F","F","F","F","F">>,
       <<"#","F","F","0","0","0","0">>,
       <<"#","0","0","F","F","0","0">>,
       <<"#","0","0","0","0","F","F">>,
       <<"#","F","F","F","F","0","0">>,
       <<"#","F","F","0","0","F","F">>,
       <<"#","0","0","F","F","F","F">>,
       <<"#","F","F","A","5","0","0">>,
       <<"#","8","0","0","0","8","0">>,
       <<"#","0","0","8","0","0","0">>,
       <<"#","8","0","0","0","0","0">>,
       <<"#","0","0","8","0","8","0">>,
       <<"#","0","0","0","0","8","0">>,
       <<"#","F","F","C","0","C","B">> >>

InitialSettings ==
    [ value       |-> "https://example.com",
      size        |-> 250,
      quietZone   |-> 10,
      bgColor     |-> <<"#","F","F","F","F","F","F">>,
      fgColor     |-> <<"#","0","0","0","0","0","0">>,
      logoImage   |-> NULL,
      logoWidth   |-> 50,
      logoHeight  |-> 50,
      logoOpacity |-> 10,
      eyeRadius   |-> 0,
      eyeColor    |-> <<"#","0","0","0","0","0","0">>,
      qrStyle     |-> "squares",
      enableCORS  |-> TRUE ]

(* Slider props: min, max, step *)
EyeRadiusMin == 0
EyeRadiusMax == 50
EyeRadiusStep == 1
SizeMin == 100
SizeMax == 500
SizeStep == 10
QuietZoneMin == 0
QuietZoneMax == 50
QuietZoneStep == 5
LogoSizeMin == 20
LogoSizeMax == 150
LogoSizeStep == 5
LogoOpacityMin == 1
LogoOpacityMax == 10
LogoOpacityStep == 1

(* The values a slider with these props can emit *)
SliderValues(min, max, step) ==
    { min + k * step : k \in 0 .. ((max - min) \div step) }

----------------------------------------------------------------------------
(* Inputs the user draws from *)

(* Texts typed into the content field *)
ContentTexts == {"", "a@b.com", "+1", "https://x", "mailto:a@b.com"}

(* Texts typed into a colour picker's text field *)
ColorTexts ==
    { <<"#","A","B","C">>,
      <<"#","A","A","B","B","C","C">>,
      <<"#","a","9","f">>,
      <<"#","Z","Z","Z","Z","Z","Z">>,
      <<"r","e","d">>,
      <<"#","1","2","3","4","5">>,
      <<"#","A","B","C","D">>,
      <<"A","B","C","D","E","F">>,
      <<"#","A","B","C","D","E","F","0">>,
      <<"#">>,
      <<>> }

(* The foreground picker is driven with every text above; the other two  *)
(* pickers, instances of the same component, with one accepted and one   *)
(* rejected text                                                         *)
PickerTexts(name) ==
    IF name = "fgColor" THEN ColorTexts
    ELSE { <<"#","A","B","C">>, <<"#","1","2","3","4","5">> }

(* Image files the user can choose as logo *)
Files == {"a.png", "b.png"}

(* Readings of the clock, new Date().getTime() *)
Times == {1, 1730000000}

(* Positions the user drags a slider to: both ends of its range *)
Ends(S) == { v \in S : (\A w \in S : v <= w) \/ (\A w \in S : w <= v) }

----------------------------------------------------------------------------
(* Payload formatter *)

(* handleQrTypeChange: the switch selecting defaultValue *)
defaultValue(type) ==
    CASE type = "url"   -> "https://example.com"
      [] type = "email" -> "example@example.com"
      [] type = "phone" -> "+1234567890"
      [] type = "sms"   -> "SMS:+1234567890:Hello there!"
      [] type = "wifi"  -> "WIFI:S:NetworkName;T:WPA;P:Password;;"
      [] type = "vcard" ->
           "BEGIN:VCARD\nVERSION:3.0\nN:Doe;John;;;\nFN:John Doe\nTEL;TYPE=CELL:+1234567890\nEMAIL:john.doe@example.com\nEND:VCARD"
      [] OTHER          -> "Hello World!"

(* getQRValue with the telephone scheme forgotten *)
getQRValue_noTel(plats, type, settings) ==
    LET value == settings.value IN
    IF Len(plats) > 1 /\ type = "url"
    THEN value
    ELSE CASE type = "email" -> "mailto:" \o value
           [] OTHER          -> value

(* getQRValue with the multi-platform branch turned into a landing page *)
getQRValue_landing(plats, type, settings) ==
    LET value == settings.value IN
    IF Len(plats) > 1 /\ type = "url"
    THEN "https://example.com/r?u=" \o value
    ELSE CASE type = "email" -> "mailto:" \o value
           [] type = "phone" -> "tel:" \o value
           [] OTHER          -> value

(* getQRValue, as a function of the state it reads *)
getQRValue(plats, type, settings) ==
    LET value == settings.value IN
    IF Len(plats) > 1 /\ type = "url"
    THEN value
    ELSE CASE type = "url"   -> value
           [] type = "email" -> "mailto:" \o value
           [] type = "phone" -> "tel:" \o value
           [] type = "sms"   -> value
           [] type = "wifi"  -> value
           [] type = "vcard" -> value
           [] OTHER          -> value

----------------------------------------------------------------------------
(* Settings store: the four setters spread qrSettings and replace one key *)

handleInputChange(settings, name, value) == [settings EXCEPT ![name] = value]

handleSelectChange(settings, name, value) == [settings EXCEPT ![name] = value]

handleSliderChange(settings, name, value) == [settings EXCEPT ![name] = value[1]]

handleColorChange(settings, name, color) == [settings EXCEPT ![name] = color]

(* handleQrTypeChange installing the default only into an empty field *)
handleQrTypeChange_keepsTyped(settings, type) ==
    IF settings.value = ""
    THEN [settings EXCEPT !.value = defaultValue(type)]
    ELSE settings

(* handleQrTypeChange's setQrSettings({ ...qrSettings, value: defaultValue }) *)
handleQrTypeChange(settings, type) ==
    [settings EXCEPT !.value = defaultValue(type)]

(* The Logo Size slider calls handleSliderChange twice in one event. Both    *)
(* calls spread the same qrSettings, and of two batched setQrSettings calls *)
(* that pass objects the later one is the state after the event.            *)
logoSizeOnValueChange(settings, value) ==
    LET first  == handleSliderChange(settings, "logoWidth", value)
        second == handleSliderChange(settings, "logoHeight", value)
        queue  == <<first, second>>
    IN  queue[Len(queue)]

(* The Remove button: setQrSettings({ ...qrSettings, logoImage: null }) *)
removeLogo(settings) == [settings EXCEPT !.logoImage = NULL]

----------------------------------------------------------------------------
(* Platform checkboxes *)

includes(arr, x) == \E i \in 1 .. Len(arr) : arr[i] = x

(* onCheckedChange of the checkbox of tag *)
onCheckedChange(plats, tag, checked) ==
    IF checked
    THEN Append(plats, tag)
    ELSE SelectSeq(plats, LAMBDA p : p # tag)

----------------------------------------------------------------------------
(* Colour picker *)

HexClass ==
    {"A","B","C","D","E","F","a","b","c","d","e","f",
     "0","1","2","3","4","5","6","7","8","9"}

(* [A-Fa-f0-9]{n} matched at position from: the position after the match, *)
(* or 0 when it does not match                                            *)
matchHexRun(value, from, n) ==
    IF from + n - 1 <= Len(value)
       /\ \A i \in from .. (from + n - 1) : value[i] \in HexClass
    THEN from + n
    ELSE 0

(* The regular expression without its end anchor *)
hexColorTest_unanchored(value) ==
    /\ Len(value) >= 1
    /\ value[1] = "#"
    /\ \/ matchHexRun(value, 2, 6) # 0
       \/ matchHexRun(value, 2, 3) # 0

(* /^#([A-Fa-f0-9]{6}|[A-Fa-f0-9]{3})$/.test(value) *)
hexColorTest(value) ==
    /\ Len(value) >= 1
    /\ value[1] = "#"
    /\ \/ matchHexRun(value, 2, 6) = Len(value) + 1
       \/ matchHexRun(value, 2, 3) = Len(value) + 1

(* ColorPicker.handleInputChange without the validation *)
pickerInputAccepts_always(value) == TRUE

(* ColorPicker.handleInputChange: the colour handed to onChange, if any *)
pickerInputAccepts(value) == hexColorTest(value)

(* useEffect(() => setInputValue(color), [color]): after a render in which *)
(* a picker's color prop changed, its text field shows the new colour      *)
useEffectColor(old, new, texts) ==
    [k \in ColorFields |-> IF new[k] # old[k] THEN new[k] ELSE texts[k]]

----------------------------------------------------------------------------
(* Logo ingestion *)

(* FileReader.readAsDataURL's result for a file that decodes *)
readAsDataURL(file) == "data:image/png;base64," \o file

(* reader.onload: spreads the qrSettings captured by handleLogoUpload *)
onload(closure, result) == [closure EXCEPT !.logoImage = result]

(* handleLogoUpload as a single-slot operation: a new read replaces the *)
(* reads in flight                                                      *)
handleLogoUpload_singleSlot(reads, id, file, settings) ==
    {[id |-> id, file |-> file, closure |-> settings]}

(* handleLogoUpload: the read it starts, given the reads in flight *)
handleLogoUpload(reads, id, file, settings) ==
    reads \cup {[id |-> id, file |-> file, closure |-> settings]}

----------------------------------------------------------------------------
(* Export *)

RECURSIVE join(_, _)
(* Array.prototype.join *)
join(arr, sep) ==
    IF Len(arr) = 0 THEN ""
    ELSE IF Len(arr) = 1 THEN arr[1]
    ELSE arr[1] \o sep \o join(Tail(arr), sep)

(* downloadQRCode without the check for a missing canvas: toDataURL is *)
(* then called on null                                                 *)
downloadQRCode_noCanvasGuard(ref, plats, time) ==
    IF ref = "null" THEN [kind |-> "return", name |-> ""]
    ELSE IF ref = "div" THEN [kind |-> "throw", name |-> ""]
    ELSE [kind |-> "click",
          name |-> "qrcode-" \o join(plats, "-") \o "-" \o ToString(time) \o ".png"]

(* downloadQRCode joining the tags with join()'s default separator *)
downloadQRCode_defaultJoin(ref, plats, time) ==
    IF ref = "null" THEN [kind |-> "return", name |-> ""]
    ELSE IF ref = "div" THEN [kind |-> "return", name |-> ""]
    ELSE [kind |-> "click",
          name |-> "qrcode-" \o join(plats, ",") \o "-" \o ToString(time) \o ".png"]

(* downloadQRCode: what the call does, given what qrRef.current holds *)
downloadQRCode(ref, plats, time) ==
    IF ref = "null" THEN [kind |-> "return", name |-> ""]
    ELSE IF ref = "div" THEN [kind |-> "return", name |-> ""]
    ELSE LET platformInfo == join(plats, "-")
         IN  [kind |-> "click",
              name |-> "qrcode-" \o platformInfo \o "-" \o ToString(time) \o ".png"]

----------------------------------------------------------------------------
(* The state after construction: the useState and useRef initial values *)

InitState ==
    /\ platforms = <<"web">>
    /\ qrType = "url"
    /\ qrSettings = InitialSettings
    /\ inputValue = [k \in ColorFields |-> InitialSettings[k]]
    /\ pending = {}
    /\ nextId = 0
    /\ chosen = NULL
    /\ surface = "null"
    /\ downloads = <<>>
    /\ thrown = FALSE
    /\ lastOp = [op |-> "mount", name |-> "", arg |-> "", was |-> ""]
    /\ ticked = {"web"}
    /\ log = <<>>

(* Exploration bounded to MaxSteps handler runs *)
Init == InitState /\ budget = MaxSteps

(* Exploration without a bound on the number of handler runs *)
InitFree == InitState /\ budget = Unlimited

(* Every handler run is recorded in lastOp (with its input arg, and for a *)
(* preset click the text the picker's field showed before) and counted   *)
(* against the budget                                                    *)
RanWas(op, name, arg, was) ==
    /\ budget # 0
    /\ budget' = IF budget > 0 THEN budget - 1 ELSE budget
    /\ lastOp' = [op |-> op, name |-> name, arg |-> arg, was |-> was]

Ran(op, name, arg) == RanWas(op, name, arg, "")

(* setQrSettings(new) followed by the render it causes; texts are the      *)
(* pickers' text fields as the handler left them                           *)
SetQrSettings(new, texts) ==
    /\ qrSettings' = new
    /\ inputValue' = useEffectColor(qrSettings, new, texts)

----------------------------------------------------------------------------
(* User actions on the form *)

(* The Content input: onChange={handleInputChange}, name="value" *)
ContentChange(text) ==
    /\ Ran("content", "value", text)
    /\ SetQrSettings(handleInputChange(qrSettings, "value", text), inputValue)
    /\ UNCHANGED <<platforms, qrType, pending, nextId, chosen, surface, downloads,
                   thrown, ticked, log>>

(* The QR Code Type select: handleQrTypeChange(type) *)
TypeChange(type) ==
    /\ Ran("type", "qrType", type)
    /\ qrType' = type
    /\ SetQrSettings(handleQrTypeChange(qrSettings, type), inputValue)
    /\ UNCHANGED <<platforms, pending, nextId, chosen, surface, downloads, thrown,
                   ticked, log>>

(* A click on the checkbox of a platform tag *)
Toggle(tag) ==
    LET checked == ~includes(platforms, tag) IN
    /\ Ran("toggle", tag, checked)
    /\ platforms' = onCheckedChange(platforms, tag, checked)
    /\ ticked' = IF tag \in ticked THEN ticked \ {tag} ELSE ticked \cup {tag}
    /\ UNCHANGED <<qrType, qrSettings, inputValue, pending, nextId, chosen, surface,
                   downloads, thrown, log>>

(* Typing into the text field of the colour picker of field name:           *)
(* ColorPicker.handleInputChange, whose onChange is handleColorChange       *)
ColorInput(name, text) ==
    LET texts == [inputValue EXCEPT ![name] = text] IN
    /\ Ran("colorInput", name, text)
    /\ IF pickerInputAccepts(text)
       THEN SetQrSettings(handleColorChange(qrSettings, name, text), texts)
       ELSE /\ inputValue' = texts
            /\ UNCHANGED qrSettings
    /\ UNCHANGED <<platforms, qrType, pending, nextId, chosen, surface, downloads,
                   thrown, ticked, log>>

(* handlePresetClick leaving the text field to the useEffect on color *)
handlePresetClick_noSetInput(settings, texts, name, presetColor) ==
    [settings |-> handleColorChange(settings, name, presetColor),
     texts    |-> texts]

(* ColorPicker.handlePresetClick: what it leaves in the settings and in the *)
(* picker's text field                                                      *)
handlePresetClick(settings, texts, name, presetColor) ==
    [settings |-> handleColorChange(settings, name, presetColor),
     texts    |-> [texts EXCEPT ![name] = presetColor]]

(* A click on a preset button of the colour picker of field name *)
PresetClick(name, presetColor) ==
    LET after == handlePresetClick(qrSettings, inputValue, name, presetColor) IN
    /\ RanWas("preset", name, presetColor, inputValue[name])
    /\ SetQrSettings(after.settings, after.texts)
    /\ UNCHANGED <<platforms, qrType, pending, nextId, chosen, surface, downloads,
                   thrown, ticked, log>>

(* The QR Style select *)
StyleSelect(style) ==
    /\ Ran("select", "qrStyle", style)
    /\ SetQrSettings(handleSelectChange(qrSettings, "qrStyle", style), inputValue)
    /\ UNCHANGED <<platforms, qrType, pending, nextId, chosen, surface, downloads,
                   thrown, ticked, log>>

(* A slider bound to one field: Eye Radius, Size, Quiet Zone, Logo Opacity *)
Slide(name, value) ==
    /\ Ran("slider", name, value)
    /\ SetQrSettings(handleSliderChange(qrSettings, name, <<value>>), inputValue)
    /\ UNCHANGED <<platforms, qrType, pending, nextId, chosen, surface, downloads,
                   thrown, ticked, log>>

EyeRadiusSlide(value) == Slide("eyeRadius", value)

SizeSlide(value) == Slide("size", value)

QuietZoneSlide(value) == Slide("quietZone", value)

(* The logo sliders and the Remove button are rendered only with a logo *)
LogoShown == qrSettings.logoImage # NULL /\ qrSettings.logoImage # ""

LogoOpacitySlide(value) == LogoShown /\ Slide("logoOpacity", value)

LogoSizeSlide(value) ==
    /\ LogoShown
    /\ Ran("logoSize", "logoWidth", value)
    /\ SetQrSettings(logoSizeOnValueChange(qrSettings, <<value>>), inputValue)
    /\ UNCHANGED <<platforms, qrType, pending, nextId, chosen, surface, downloads,
                   thrown, ticked, log>>

RemoveLogo ==
    /\ LogoShown
    /\ Ran("remove", "logoImage", NULL)
    /\ SetQrSettings(removeLogo(qrSettings), inputValue)
    /\ UNCHANGED <<platforms, qrType, pending, nextId, chosen, surface, downloads,
                   thrown, ticked, log>>

----------------------------------------------------------------------------
(* Logo upload and the FileReader's events *)

(* The callback registered as onloadend: it runs on failure as well *)
readerHandlers_onloadend == {"load", "error"}

(* The handlers handleLogoUpload registers on the reader: onload only *)
readerHandlers == {"load"}

(* The settings after the reader of a pending read fires event ev *)
dispatch(ev, settings, read) ==
    IF ev \in readerHandlers
    THEN onload(read.closure, IF ev = "load" THEN readAsDataURL(read.file) ELSE NULL)
    ELSE settings

(* The file input's change event: the input holds another file than      *)
(* before, or none any more (file = NULL)                                *)
Upload(file) ==
    /\ nextId < MaxUploads
    /\ file # chosen
    /\ chosen' = file
    /\ Ran("upload", "logoImage", file)
    /\ IF file # NULL
       THEN /\ pending' = handleLogoUpload(pending, nextId + 1, file, qrSettings)
            /\ nextId' = nextId + 1
            /\ log' = Append(log, [ev |-> "start", id |-> nextId + 1, file |-> file])
       ELSE UNCHANGED <<pending, nextId, log>>
    /\ UNCHANGED <<platforms, qrType, qrSettings, inputValue, surface,
                   downloads, thrown, ticked>>

ReaderEvent(ev, read) ==
    /\ read \in pending
    /\ Ran(ev, "logoImage", read.id)
    /\ pending' = pending \ {read}
    /\ log' = Append(log, [ev |-> ev, id |-> read.id, file |-> read.file])
    /\ SetQrSettings(dispatch(ev, qrSettings, read), inputValue)
    /\ UNCHANGED <<platforms, qrType, nextId, chosen, surface, downloads,
                   thrown, ticked>>

(* A pending read completes: the reader fires load *)
ReaderLoad(read) == ReaderEvent("load", read)

(* A pending read fails: the reader fires error *)
ReaderError(read) == ReaderEvent("error", read)

----------------------------------------------------------------------------
(* Preview and export *)

Surfaces == {"null", "div", "canvas"}

(* What qrRef.current holds is decided by React and by the rendering        *)
(* library: nothing, the div without a canvas, or the div with its canvas   *)
Render(s) ==
    /\ s # surface
    /\ Ran("render", "qrRef", s)
    /\ surface' = s
    /\ UNCHANGED <<platforms, qrType, qrSettings, inputValue, pending, nextId, chosen,
                   downloads, thrown, ticked, log>>

(* A click on Download QR Code at clock reading time *)
Download(time) ==
    LET did == downloadQRCode(surface, platforms, time) IN
    /\ did.kind = "click" => Len(downloads) < MaxDownloads
    /\ Ran("download", "", time)
    /\ downloads' = IF did.kind = "click" THEN Append(downloads, did.name)
                    ELSE downloads
    /\ thrown' = (thrown \/ did.kind = "throw")
    /\ UNCHANGED <<platforms, qrType, qrSettings, inputValue, pending, nextId, chosen,
                   surface, ticked, log>>

----------------------------------------------------------------------------
(* Specifications *)

(* The foreground picker is driven with all presets, the other two with   *)
(* the first and the last one that differ from their initial colour      *)
PickerPresets(name) ==
    IF name = "fgColor" THEN { presetColors[i] : i \in 1 .. Len(presetColors) }
    ELSE { presetColors[3], presetColors[Len(presetColors)] }

(* The whole form, explored to MaxSteps handler runs *)
Next ==
    \/ \E text \in ContentTexts : ContentChange(text)
    \/ \E type \in QRCodeType : TypeChange(type)
    \/ \E tag \in PlatformTags : Toggle(tag)
    \/ \E name \in ColorFields : \E text \in PickerTexts(name) : ColorInput(name, text)
    \/ \E name \in ColorFields : \E c \in PickerPresets(name) : PresetClick(name, c)
    \/ \E style \in QRStyles : StyleSelect(style)
    \/ \E v \in Ends(SliderValues(EyeRadiusMin, EyeRadiusMax, EyeRadiusStep)) :
          EyeRadiusSlide(v)
    \/ \E v \in Ends(SliderValues(SizeMin, SizeMax, SizeStep)) : SizeSlide(v)
    \/ \E v \in Ends(SliderValues(QuietZoneMin, QuietZoneMax, QuietZoneStep)) :
          QuietZoneSlide(v)
    \/ \E v \in Ends(SliderValues(LogoSizeMin, LogoSizeMax, LogoSizeStep)) :
          LogoSizeSlide(v)
    \/ \E v \in Ends(SliderValues(LogoOpacityMin, LogoOpacityMax, LogoOpacityStep)) :
          LogoOpacitySlide(v)
    \/ RemoveLogo
    \/ \E file \in Files \cup {NULL} : Upload(file)
    \/ \E read \in pending : ReaderLoad(read)
    \/ \E read \in pending : ReaderError(read)
    \/ \E s \in Surfaces : Render(s)
    \/ \E time \in Times : Download(time)

Spec == Init /\ [][Next]_vars

(* The payload formatter: content, content type and platform selection *)
NextFormat ==
    \/ \E text \in ContentTexts : ContentChange(text)
    \/ \E type \in QRCodeType : TypeChange(type)
    \/ \E tag \in PlatformTags : Toggle(tag)

SpecFormat == InitFree /\ [][NextFormat]_vars

(* The three colour pickers *)
NextColor ==
    \/ \E name \in ColorFields : \E text \in PickerTexts(name) : ColorInput(name, text)
    \/ \E name \in ColorFields : \E c \in PickerPresets(name) : PresetClick(name, c)

SpecColor == InitFree /\ [][NextColor]_vars

(* Logo ingestion, with the settings the user can change while a read is *)
(* pending                                                               *)
NextLogo ==
    \/ \E file \in Files \cup {NULL} : Upload(file)
    \/ \E read \in pending : ReaderLoad(read)
    \/ \E read \in pending : ReaderError(read)
    \/ RemoveLogo
    \/ \E v \in Ends(SliderValues(LogoSizeMin, LogoSizeMax, LogoSizeStep)) :
          LogoSizeSlide(v)
    \/ \E v \in Ends(SliderValues(LogoOpacityMin, LogoOpacityMax, LogoOpacityStep)) :
          LogoOpacitySlide(v)
    \/ \E type \in {"url", "email"} : TypeChange(type)

SpecLogo == InitFree /\ [][NextLogo]_vars

(* Export: platform selection, the rendered surface, the download *)
NextExport ==
    \/ \E tag \in PlatformTags : Toggle(tag)
    \/ \E s \in Surfaces : Render(s)
    \/ \E time \in Times : Download(time)

SpecExport == InitFree /\ [][NextExport]_vars

----------------------------------------------------------------------------
(* Properties *)

(* C1: for every content type and every raw string v in the content field, *)
(* getQRValue returns "mailto:" + v for email, "tel:" + v for phone, and v *)
(* unchanged for url, text, sms, wifi and vcard.                           *)
C1_FormatterByType ==
    LET v   == qrSettings.value
        out == getQRValue(platforms, qrType, qrSettings)
    IN  /\ qrType = "email" => out = "mailto:" \o v
        /\ qrType = "phone" => out = "tel:" \o v
        /\ qrType \in {"url", "text", "sms", "wifi", "vcard"} => out = v

(* The spec's example: the user typed a@b.com with type email *)
C1_Witness ==
    /\ qrType = "email"
    /\ lastOp.op = "content"
    /\ qrSettings.value = "a@b.com"
    /\ getQRValue(platforms, qrType, qrSettings) = "mailto:a@b.com"

(* C2: right after handleQrTypeChange(t) the current type is t and the raw *)
(* text field holds exactly t's default string, whatever it held before.   *)
C2_TypeChangeInstallsDefault ==
    lastOp.op = "type" =>
        /\ qrType = lastOp.arg
        /\ qrType = "url"   => qrSettings.value = "https://example.com"
        /\ qrType = "email" => qrSettings.value = "example@example.com"
        /\ qrType = "phone" => qrSettings.value = "+1234567890"
        /\ qrType = "sms"   => qrSettings.value = "SMS:+1234567890:Hello there!"
        /\ qrType = "wifi"  =>
              qrSettings.value = "WIFI:S:NetworkName;T:WPA;P:Password;;"
        /\ qrType = "vcard" =>
              qrSettings.value =
                "BEGIN:VCARD\nVERSION:3.0\nN:Doe;John;;;\nFN:John Doe\nTEL;TYPE=CELL:+1234567890\nEMAIL:john.doe@example.com\nEND:VCARD"
        /\ qrType = "text"  => qrSettings.value = "Hello World!"

(* The type was switched to wifi and the field shows the wifi sample *)
C2_Witness ==
    /\ lastOp.op = "type"
    /\ lastOp.arg = "wifi"
    /\ qrType = "wifi"
    /\ qrSettings.value = "WIFI:S:NetworkName;T:WPA;P:Password;;"

(* Every platform selection: the tags in any order, none twice *)
PlatformSelections ==
    { sel \in UNION { [1 .. n -> PlatformTags] : n \in 0 .. Cardinality(PlatformTags) } :
        \A i, j \in 1 .. Len(sel) : sel[i] = sel[j] => i = j }

(* C5: the encoded payload does not depend on the platform selection: for  *)
(* the current content type and raw string, getQRValue returns the same    *)
(* string for any two platform selections.                                 *)
C5_PayloadIgnoresPlatforms ==
    \A p1, p2 \in PlatformSelections :
        getQRValue(p1, qrType, qrSettings) = getQRValue(p2, qrType, qrSettings)

(* Several tags are selected while the content type is URL *)
C5_Witness ==
    /\ lastOp.op = "toggle"
    /\ Len(platforms) > 1
    /\ qrType = "url"
    /\ qrSettings.value = "https://x"

(* "#" followed by exactly 3 or exactly 6 hex digits *)
HexDigits ==
    {"0","1","2","3","4","5","6","7","8","9",
     "a","b","c","d","e","f","A","B","C","D","E","F"}

IsHash3or6Hex(text) ==
    \E n \in {3, 6} :
        /\ Len(text) = n + 1
        /\ text[1] = "#"
        /\ \A i \in 2 .. (n + 1) : text[i] \in HexDigits

(* C3: typing a text into a colour picker's text field applies it as the   *)
(* new colour only if it is "#" followed by exactly 3 or 6 hex digits; for *)
(* any other text the applied colour stays at its prior value and the text *)
(* field shows the rejected text.                                          *)
C3_ColorInputValidated ==
    [][ lastOp'.op = "colorInput" =>
          LET name == lastOp'.name
              text == lastOp'.arg
          IN  /\ inputValue'[name] = text
              /\ IsHash3or6Hex(text) => qrSettings'[name] = text
              /\ ~IsHash3or6Hex(text) => qrSettings'[name] = qrSettings[name]
      ]_vars

(* "#12345" was typed over the accepted "#ABC": the field shows the        *)
(* rejected text and the applied colour is still "#ABC"                    *)
C3_Witness ==
    /\ lastOp.op = "colorInput"
    /\ lastOp.name = "fgColor"
    /\ lastOp.arg = <<"#","1","2","3","4","5">>
    /\ inputValue.fgColor = <<"#","1","2","3","4","5">>
    /\ qrSettings.fgColor = <<"#","A","B","C">>

(* C4: clicking any preset colour sets the applied colour and the text     *)
(* field to that preset in the same step, whatever the text field held     *)
(* before, rejected text included.                                         *)
C4_PresetAlwaysApplies ==
    lastOp.op = "preset" =>
        /\ \E i \in 1 .. 15 : presetColors[i] = lastOp.arg
        /\ qrSettings[lastOp.name] = lastOp.arg
        /\ inputValue[lastOp.name] = lastOp.arg

(* The last preset was clicked while the field showed the rejected         *)
(* "#ZZZZZZ"                                                               *)
C4_Witness ==
    /\ lastOp.op = "preset"
    /\ lastOp.name = "fgColor"
    /\ lastOp.was = <<"#","Z","Z","Z","Z","Z","Z">>
    /\ lastOp.arg = presetColors[15]
    /\ qrSettings.fgColor = <<"#","F","F","C","0","C","B">>
    /\ inputValue.fgColor = <<"#","F","F","C","0","C","B">>

(* The pending read whose reader fired the event recorded in op *)
ReadOf(op) == CHOOSE read \in pending : read.id = op.arg

(* C6 as stated: a read that decodes makes its result the logo source, and *)
(* after a read that fails the logo source has the value it had before the *)
(* upload was started.                                                     *)
C6_FailureRestoresPreUpload ==
    [][ /\ lastOp'.op = "load" =>
              qrSettings'.logoImage =
                  "data:image/png;base64," \o ReadOf(lastOp').file
        /\ lastOp'.op = "error" =>
              qrSettings'.logoImage = ReadOf(lastOp').closure.logoImage
      ]_vars

(* C6 as amended: a read that decodes makes its result the logo source     *)
(* when it completes; a read that fails changes nothing: the logo source   *)
(* and every other setting keep the values they had right before the       *)
(* failure.                                                                *)
C6_FailureChangesNothing ==
    [][ /\ lastOp'.op = "load" =>
              qrSettings'.logoImage =
                  "data:image/png;base64," \o ReadOf(lastOp').file
        /\ lastOp'.op = "error" => qrSettings' = qrSettings
      ]_vars

(* A read failed while a logo was installed, and the logo is still there; *)
(* it is the logo of the other upload, which completed while the failed   *)
(* read was pending                                                       *)
C6_Witness ==
    /\ lastOp.op = "error"
    /\ Len(log) = 4
    /\ log[1].ev = "start" /\ log[2].ev = "start"
    /\ log[3].ev = "load" /\ log[4].ev = "error"
    /\ qrSettings.logoImage = "data:image/png;base64," \o log[3].file

(* Positions of events in the log *)
At(ev, id) == { i \in 1 .. Len(log) : log[i].ev = ev /\ log[i].id = id }

Ended(id) == At("load", id) \cup At("error", id)

LoadAt(id) == CHOOSE i \in At("load", id) : TRUE

(* Upload b was started while the read of upload a was in flight *)
StartedDuring(a, b) ==
    \E i \in At("start", a), j \in At("start", b) :
        /\ i < j
        /\ \A k \in Ended(a) : j < k

(* C7: when a second upload is started before the first finishes, neither  *)
(* read is dropped, and right after the later of the two completions the   *)
(* logo source is the result of the read that completed last, whichever    *)
(* upload was started first.                                               *)
C7_LastCompletionWins ==
    /\ \A id \in 1 .. nextId :
          Ended(id) = {} => \E read \in pending : read.id = id
    /\ \A a, b \in 1 .. nextId :
          ( /\ StartedDuring(a, b)
            /\ At("load", a) # {} /\ At("load", b) # {}
            /\ lastOp.op = "load" /\ lastOp.arg \in {a, b} )
          => LET last == IF LoadAt(a) > LoadAt(b) THEN a ELSE b
             IN  /\ lastOp.arg = last
                 /\ qrSettings.logoImage =
                       "data:image/png;base64," \o log[LoadAt(last)].file

(* Two overlapping uploads of different files; the one started first       *)
(* completed last and its result is the logo                               *)
C7_Witness ==
    /\ lastOp.op = "load"
    /\ lastOp.arg = 1
    /\ StartedDuring(1, 2)
    /\ \E i \in At("load", 2) : \E j \in At("load", 1) : i < j
    /\ log[1].file = "a.png"
    /\ log[2].file = "b.png"
    /\ qrSettings.logoImage = "data:image/png;base64,a.png"

(* C8: in every state reachable from the mount defaults, size is within    *)
(* 100..500, quiet zone within 0..50, logo width and height within         *)
(* 20..150, logo opacity within 0.1..1 (1..10 tenths), and bgColor,        *)
(* fgColor and eyeColor are each "#" followed by 3 or 6 hex digits.        *)
C8_SettingsInRange ==
    /\ qrSettings.size \in 100 .. 500
    /\ qrSettings.quietZone \in 0 .. 50
    /\ qrSettings.logoWidth \in 20 .. 150
    /\ qrSettings.logoHeight \in 20 .. 150
    /\ qrSettings.logoOpacity \in 1 .. 10
    /\ IsHash3or6Hex(qrSettings.bgColor)
    /\ IsHash3or6Hex(qrSettings.fgColor)
    /\ IsHash3or6Hex(qrSettings.eyeColor)

(* A read completed after the Size slider had been dragged to its maximum: *)
(* the settings are those captured at the upload, plus the logo            *)
C8_Witness ==
    /\ lastOp.op = "load"
    /\ qrSettings.logoImage = "data:image/png;base64,b.png"
    /\ qrSettings.size = 500

(* C9: invoking export while no canvas is mounted triggers no download,    *)
(* raises no error, and leaves the settings, the content type and the      *)
(* platform selection unchanged.                                           *)
C9_ExportWithoutCanvasIsNoOp ==
    [][ (lastOp'.op = "download" /\ surface # "canvas") =>
          /\ downloads' = downloads
          /\ thrown' = FALSE
          /\ qrSettings' = qrSettings
          /\ qrType' = qrType
          /\ platforms' = platforms
      ]_vars

(* Export was invoked with a div that holds no canvas, several tags being  *)
(* selected                                                                *)
C9_Witness ==
    /\ lastOp.op = "download"
    /\ surface = "div"
    /\ Len(platforms) = 2
    /\ downloads = <<>>
    /\ thrown = FALSE

RECURSIVE Hyphenated(_)
(* The tags of a selection, each but the first preceded by "-" *)
Hyphenated(tags) ==
    IF tags = <<>> THEN ""
    ELSE LET front == SubSeq(tags, 1, Len(tags) - 1)
         IN  IF front = <<>> THEN tags[Len(tags)]
             ELSE Hyphenated(front) \o "-" \o tags[Len(tags)]

(* C10: when export runs with a canvas present, the download is named      *)
(* "qrcode-" + the selected platform tags joined by "-" + "-" + the epoch  *)
(* milliseconds + ".png", the tags being exactly those ticked at the time  *)
(* of export.                                                              *)
C10_DownloadName ==
    (lastOp.op = "download" /\ surface = "canvas") =>
        /\ downloads # <<>>
        /\ downloads[Len(downloads)] =
              "qrcode-" \o Hyphenated(platforms) \o "-" \o ToString(lastOp.arg)
                  \o ".png"
        /\ { platforms[i] : i \in 1 .. Len(platforms) } = ticked
        /\ Len(platforms) = Cardinality(ticked)

(* web was unticked, android and ios ticked, then the code exported *)
C10_Witness ==
    /\ lastOp.op = "download"
    /\ surface = "canvas"
    /\ ticked = {"android", "ios"}
    /\ downloads = <<"qrcode-android-ios-1730000000.png">>

(* The settings fields other than the logo source *)
OtherFields == (DOMAIN InitialSettings) \ {"logoImage"}

(* C11: completion of a logo decode changes only the logo source: every    *)
(* other settings field holds, right after the completion, the value it    *)
(* had right before it, even if the user changed settings or the content   *)
(* type while the decode was pending.                                      *)
C11_LoadChangesOnlyLogo ==
    [][ lastOp'.op = "load" =>
          \A field \in OtherFields : qrSettings'[field] = qrSettings[field]
      ]_vars

(* C12: after the Logo Size slider is moved to a value v, both logoWidth   *)
(* and logoHeight equal v, so logo width and height are equal in every     *)
(* reachable state.                                                        *)
C12_LogoSizeSetsWidthAndHeight ==
    /\ lastOp.op = "logoSize" =>
          /\ qrSettings.logoWidth = lastOp.arg
          /\ qrSettings.logoHeight = lastOp.arg
    /\ qrSettings.logoWidth = qrSettings.logoHeight

====
